---- MODULE Spec2Model ----
(***************************************************************************)
(* Model of the cron-parser (src/app.py).                                  *)
(*                                                                         *)
(* Text is modelled as a sequence of one-character strings, so that the    *)
(* regular expressions, str.split, int() and " ".join of the source are    *)
(* computed character by character.                                        *)
(*                                                                         *)
(* Two specifications share the module:                                    *)
(*   Spec        the program expand_cron_exp(expression):                  *)
(*               RawCronExpression(expression).expand()                    *)
(*   SpecExpand  a direct call expand_expression(notation, options), as    *)
(*               the unit tests of src/app_test.py make it.                *)
(***************************************************************************)
EXTENDS Integers, Sequences, FiniteSets, TLC

VARIABLES
    pc,          \* position of the program
    expression,  \* the argument of expand_cron_exp
    raw,         \* the RawCronExpression object (or None)
    arg,         \* the string RawCronExpression.expand hands to CronExpression
    self,        \* the CronExpression object under construction (or None)
    result,      \* what the caller receives: the finished CronExpression, or None
    err,         \* the kind of the ValueError raised, or "none"
    notation,    \* SpecExpand: first argument of expand_expression
    options,     \* SpecExpand: second argument of expand_expression
    out          \* SpecExpand: what the call produced (or None)

vars == <<pc, expression, raw, arg, self, result, err, notation, options, out>>

None == [none |-> TRUE]

(***************************************************************************)
(* Bounds of the inputs.                                                   *)
(***************************************************************************)
MaxLen == 5        \* longest notation handed to expand_expression directly

(***************************************************************************)
(* Characters.                                                             *)
(***************************************************************************)
\* \d of the regular expressions (ASCII digits)
Digits == {"0", "1", "2", "3", "4", "5", "6", "7", "8", "9"}

\* what str.split() with no argument treats as a separator
WhiteSpace == {" ", "\t", "\n", "\r", "\f"}

DigitVal(c) ==
    CASE c = "0" -> 0 [] c = "1" -> 1 [] c = "2" -> 2 [] c = "3" -> 3
      [] c = "4" -> 4 [] c = "5" -> 5 [] c = "6" -> 6 [] c = "7" -> 7
      [] c = "8" -> 8 [] c = "9" -> 9

\* int(s) of a string of digits: leading zeros are accepted ("05" is 5)
RECURSIVE int(_)
int(s) ==
    IF Len(s) = 0 THEN 0
    ELSE 10 * int(SubSeq(s, 1, Len(s) - 1)) + DigitVal(s[Len(s)])

\* range(lo, hi) as a list
range(lo, hi) == [i \in 1..(IF hi > lo THEN hi - lo ELSE 0) |-> lo + i - 1]

\* x in xs, for a list xs
In(x, xs) == \E i \in 1..Len(xs) : xs[i] = x

\* s.split(c): the pieces of s between the occurrences of c (never empty list)
RECURSIVE splitOn(_, _)
splitOn(s, c) ==
    IF \A i \in 1..Len(s) : s[i] # c THEN <<s>>
    ELSE LET k == CHOOSE i \in 1..Len(s) :
                      s[i] = c /\ \A j \in 1..(i - 1) : s[j] # c
         IN  <<SubSeq(s, 1, k - 1)>> \o splitOn(SubSeq(s, k + 1, Len(s)), c)

(***************************************************************************)
(* The regular expressions of expand_expression.  Notations are tokens of  *)
(* str.split(), so they hold no whitespace and $ is the end of the text.   *)
(***************************************************************************)
\* mutant: \d+ in place of \d{1,2}
IsNum12_AnyLength(s) == Len(s) >= 1 /\ \A i \in 1..Len(s) : s[i] \in Digits

\* \d{1,2} against the whole of s
IsNum12(s) == Len(s) \in 1..2 /\ \A i \in 1..Len(s) : s[i] \in Digits

\* ^(\d{1,2})-(\d{1,2})$
DashMatches(s) ==
    \E i \in 1..Len(s) :
        /\ s[i] = "-"
        /\ IsNum12(SubSeq(s, 1, i - 1))
        /\ IsNum12(SubSeq(s, i + 1, Len(s)))

DashGroup(s, g) ==
    LET i == CHOOSE k \in 1..Len(s) : s[k] = "-"
    IN  IF g = 1 THEN SubSeq(s, 1, i - 1) ELSE SubSeq(s, i + 1, Len(s))

\* ^\d{1,2}(?:,\d{1,2})*$
RECURSIVE ListMatches(_)
ListMatches(s) ==
    \E k \in 1..2 :
        /\ k <= Len(s)
        /\ IsNum12(SubSeq(s, 1, k))
        /\ \/ k = Len(s)
           \/ /\ k < Len(s)
              /\ s[k + 1] = ","
              /\ ListMatches(SubSeq(s, k + 2, Len(s)))

\* ^(\*|\d{1,2}-\d{1,2})/(\d{1,2})$
IntervalMatches(s) ==
    \E i \in 1..Len(s) :
        /\ s[i] = "/"
        /\ \/ SubSeq(s, 1, i - 1) = <<"*">>
           \/ DashMatches(SubSeq(s, 1, i - 1))
        /\ IsNum12(SubSeq(s, i + 1, Len(s)))

IntervalGroup(s, g) ==
    LET i == CHOOSE k \in 1..Len(s) : s[k] = "/"
    IN  IF g = 1 THEN SubSeq(s, 1, i - 1) ELSE SubSeq(s, i + 1, Len(s))

\* ^\d{1,2}$
SingleMatches(s) == IsNum12(s)

(***************************************************************************)
(* expand_expression.  A call either returns a list or raises ValueError;  *)
(* the kind of the error names the raise statement it comes from.          *)
(***************************************************************************)
Return(v) == [ok |-> TRUE, val |-> v, err |-> "none"]
Raise(kind) == [ok |-> FALSE, val |-> <<>>, err |-> kind]

\* the raise statements of src/app.py
MalformedExpression == "MalformedExpression"   \* line 12
InvalidRange        == "InvalidRange"          \* line 125
NoValidValues       == "NoValidValues"         \* line 135, "Value [..] not in"
InvalidInterval     == "InvalidInterval"       \* line 143
ValueNotInDomain    == "ValueNotInDomain"      \* line 154, "Value v not in"
UnrecognizedFormat  == "UnrecognizedFormat"    \* line 157

\* mutant: a range that selects nothing is reported as an error
ExpandRange_EmptyIsError(e, opts) ==
    LET start == int(DashGroup(e, 1))
        end   == int(DashGroup(e, 2))
        sel   == SelectSeq(opts, LAMBDA x : start <= x /\ x <= end)
    IN  IF start > end THEN Raise(InvalidRange)
        ELSE IF sel = <<>> THEN Raise(NoValidValues) ELSE Return(sel)

\* lines 121-126
ExpandRange(e, opts) ==
    LET start == int(DashGroup(e, 1))
        end   == int(DashGroup(e, 2))
    IN  IF start > end THEN Raise(InvalidRange)
        ELSE Return(SelectSeq(opts, LAMBDA x : start <= x /\ x <= end))

\* mutant: the options are filtered by the list (domain order, no repeats)
ExpandList_DomainOrder(e, opts) ==
    LET pieces  == splitOn(e, ",")
        values  == [i \in 1..Len(pieces) |-> int(pieces[i])]
        res_val == SelectSeq(opts, LAMBDA x : In(x, values))
    IN  IF res_val # <<>> THEN Return(res_val) ELSE Raise(NoValidValues)

\* mutant: a list with no valid value returns the empty list
ExpandList_EmptyIsFine(e, opts) ==
    LET pieces  == splitOn(e, ",")
        values  == [i \in 1..Len(pieces) |-> int(pieces[i])]
    IN  Return(SelectSeq(values, LAMBDA x : In(x, opts)))

\* lines 128-135
ExpandList(e, opts) ==
    LET pieces  == splitOn(e, ",")
        values  == [i \in 1..Len(pieces) |-> int(pieces[i])]
        res_val == SelectSeq(values, LAMBDA x : In(x, opts))
    IN  IF res_val # <<>> THEN Return(res_val) ELSE Raise(NoValidValues)

\* mutant: steps counted from 0
StepFilter_FromZero(new_options, interval) ==
    SelectSeq(new_options, LAMBDA x : x % interval = 0)

\* line 147
StepFilter(new_options, interval) ==
    SelectSeq(new_options, LAMBDA x : (x - new_options[1]) % interval = 0)

\* lines 149-154
ExpandSingle(e, opts) ==
    LET value == int(e)
    IN  IF In(value, opts) THEN Return(<<value>>) ELSE Raise(ValueNotInDomain)

RECURSIVE expand_expression(_, _)

\* mutant: the base is expanded before the step is checked
ExpandInterval_BaseFirst(e, opts) ==
    LET base_expression == IntervalGroup(e, 1)
        interval        == int(IntervalGroup(e, 2))
        new_options     == expand_expression(base_expression, opts)
    IN  IF ~new_options.ok THEN new_options
        ELSE IF interval <= 0 THEN Raise(InvalidInterval)
        ELSE Return(StepFilter(new_options.val, interval))

\* lines 137-147: the step is checked first, then the base is expanded by a
\* recursive call (group 1 is "*" or a range, so the recursion has depth 1)
ExpandInterval(e, opts) ==
    LET base_expression == IntervalGroup(e, 1)
        interval        == int(IntervalGroup(e, 2))
    IN  IF interval <= 0 THEN Raise(InvalidInterval)
        ELSE LET new_options == expand_expression(base_expression, opts)
             IN  IF ~new_options.ok THEN new_options
                 ELSE Return(StepFilter(new_options.val, interval))

\* lines 115-157: the first rule that matches decides
expand_expression(e, opts) ==
    IF e = <<"*">> THEN Return(opts)
    ELSE IF DashMatches(e) THEN ExpandRange(e, opts)
    ELSE IF ListMatches(e) THEN ExpandList(e, opts)
    ELSE IF IntervalMatches(e) THEN ExpandInterval(e, opts)
    ELSE IF SingleMatches(e) THEN ExpandSingle(e, opts)
    ELSE Raise(UnrecognizedFormat)

(***************************************************************************)
(* Inputs of the direct calls.                                             *)
(***************************************************************************)
NotationChars == {"0", "1", "5", "*", ",", "-", "/", "a"}

\* every text of at most n characters of chars
IsTextUpTo(s, chars, n) == \E len \in 0..n : s \in [1..len -> chars]

\* the lists the unit tests and CronExpression.__init__ pass as options
DomainInputs == {range(1, 6), range(1, 13), range(0, 60)}

InitExpand ==
    /\ pc = "call"
    /\ IsTextUpTo(notation, NotationChars, MaxLen)
    /\ options \in DomainInputs
    /\ out = None
    /\ expression = <<>>
    /\ raw = None
    /\ arg = <<>>
    /\ self = None
    /\ result = None
    /\ err = "none"

Call ==
    /\ pc = "call"
    /\ out' = expand_expression(notation, options)
    /\ pc' = "returned"
    /\ UNCHANGED <<expression, raw, arg, self, result, err, notation, options>>

NextExpand == Call

SpecExpand == InitExpand /\ [][NextExpand]_vars

(***************************************************************************)
(* The schedule classes.                                                   *)
(***************************************************************************)
\* s.split(): the maximal runs of non-whitespace characters of s
RECURSIVE split(_)
split(s) ==
    IF s = <<>> THEN <<>>
    ELSE IF Head(s) \in WhiteSpace THEN split(Tail(s))
    ELSE LET k == CHOOSE n \in 1..Len(s) :
                      /\ \A j \in 1..n : s[j] \notin WhiteSpace
                      /\ n = Len(s) \/ s[n + 1] \in WhiteSpace
         IN  <<SubSeq(s, 1, k)>> \o split(SubSeq(s, k + 1, Len(s)))

\* sep.join(parts)
RECURSIVE join(_, _)
join(sep, parts) ==
    IF parts = <<>> THEN <<>>
    ELSE IF Len(parts) = 1 THEN parts[1]
    ELSE parts[1] \o sep \o join(sep, Tail(parts))

\* mutant: the hour is expanded before the minute
FieldOrder_HourFirst == <<"hour", "minute", "day_of_month", "month", "day_of_week">>

\* the fields, in the order CronExpression.__init__ expands them
FieldOrder == <<"minute", "hour", "day_of_month", "month", "day_of_week">>

FieldNames == {"minute", "hour", "day_of_month", "month", "day_of_week"}

\* mutant: only the first word after the fields is kept as the command
AbstractCronExpression_init_FirstWord(e) ==
    LET parts == split(e)
    IN  IF Len(parts) < 6 THEN Raise(MalformedExpression)
        ELSE [ok      |-> TRUE,
              raw     |-> [f \in FieldNames |->
                             CASE f = "minute"       -> parts[1]
                               [] f = "hour"         -> parts[2]
                               [] f = "day_of_month" -> parts[3]
                               [] f = "month"        -> parts[4]
                               [] f = "day_of_week"  -> parts[5]],
              command |-> parts[6]]

\* AbstractCronExpression.__init__: raw[f] is the attribute raw_<f>
AbstractCronExpression_init(e) ==
    LET parts == split(e)
    IN  IF Len(parts) < 6 THEN Raise(MalformedExpression)
        ELSE [ok      |-> TRUE,
              raw     |-> [f \in FieldNames |->
                             CASE f = "minute"       -> parts[1]
                               [] f = "hour"         -> parts[2]
                               [] f = "day_of_month" -> parts[3]
                               [] f = "month"        -> parts[4]
                               [] f = "day_of_week"  -> parts[5]],
              command |-> join(<<" ">>, SubSeq(parts, 6, Len(parts)))]

\* mutant: every field counted from 0
DomainOf_ZeroBased(f) ==
    CASE f = "minute"       -> range(0, 60)
      [] f = "hour"         -> range(0, 24)
      [] f = "day_of_month" -> range(0, 32)
      [] f = "month"        -> range(0, 13)
      [] f = "day_of_week"  -> range(0, 8)

\* the options CronExpression.__init__ passes for each field
DomainOf(f) ==
    CASE f = "minute"       -> range(0, 60)
      [] f = "hour"         -> range(0, 24)
      [] f = "day_of_month" -> range(1, 32)
      [] f = "month"        -> range(1, 13)
      [] f = "day_of_week"  -> range(1, 8)

\* the f-string of RawCronExpression.expand
Rebuilt(r) ==
    r.raw["minute"] \o <<" ">> \o r.raw["hour"] \o <<" ">>
        \o r.raw["day_of_month"] \o <<" ">> \o r.raw["month"] \o <<" ">>
        \o r.raw["day_of_week"] \o <<" ">> \o r.command

(***************************************************************************)
(* Inputs of the program.                                                  *)
(***************************************************************************)
MaxCmdWords == 2   \* most words of a command, in the expressions built of fields
MaxExprLen == 12   \* longest expression, in the expressions of blanks and stars

\* notations of every form, valid or not in one domain or another
FieldInputs ==
    { <<"*">>,
      <<"0">>,
      <<"5", ",", "1", ",", "5">>,
      <<"3", "0", "-", "4", "0">>,
      <<"1", "-", "5", "/", "2">>,
      <<"5", "-", "1">>,
      <<"a">> }

CmdWord(i) == IF i % 2 = 1 THEN <<"c">> ELSE <<"-", "a">>

\* five fields and a command of k words, single spaces between
FieldExpr(fs, k) ==
    join(<<" ">>, [i \in 1..(5 + k) |-> IF i <= 5 THEN fs[i] ELSE CmdWord(i - 5)])

\* seven tokens with the whitespace character w between and around them
SepExpr(w) ==
    <<w, "*", w, "*", w, "*", w, w, "*", w, "*", w, "c", w, w, "-", "a", w>>

\* the expressions: built of fields and a command of 0..MaxCmdWords words;
\* every text of blanks and stars (any number of tokens, any spacing);
\* seven tokens separated by each whitespace character
IsInput(e) ==
    \/ \E fs \in [1..5 -> FieldInputs], k \in 0..MaxCmdWords : e = FieldExpr(fs, k)
    \/ IsTextUpTo(e, {" ", "*"}, MaxExprLen)
    \/ \E w \in WhiteSpace : e = SepExpr(w)

Init ==
    /\ pc = "start"
    /\ IsInput(expression)
    /\ raw = None
    /\ arg = <<>>
    /\ self = None
    /\ result = None
    /\ err = "none"
    /\ notation = <<>>
    /\ options = <<>>
    /\ out = None

\* expand_cron_exp: RawCronExpression(cron_exp)
RawInit ==
    /\ pc = "start"
    /\ LET r == AbstractCronExpression_init(expression)
       IN  IF r.ok
           THEN /\ raw' = [raw |-> r.raw, command |-> r.command]
                /\ pc' = "raw"
                /\ err' = err
           ELSE /\ raw' = raw
                /\ pc' = "error"
                /\ err' = r.err
    /\ UNCHANGED <<expression, arg, self, result, notation, options, out>>

\* RawCronExpression.expand: the text handed to CronExpression
RawExpand ==
    /\ pc = "raw"
    /\ arg' = Rebuilt(raw)
    /\ pc' = "cron_init"
    /\ UNCHANGED <<expression, raw, self, result, err, notation, options, out>>

\* CronExpression.__init__: super().__init__(expression)
CronInit ==
    /\ pc = "cron_init"
    /\ LET r == AbstractCronExpression_init(arg)
       IN  IF r.ok
           THEN /\ self' = [raw      |-> r.raw,
                            command  |-> r.command,
                            expanded |-> [f \in FieldNames |-> None]]
                /\ pc' = FieldOrder[1]
                /\ err' = err
           ELSE /\ self' = self
                /\ pc' = "error"
                /\ err' = r.err
    /\ UNCHANGED <<expression, raw, arg, result, notation, options, out>>

PcAfter(f) ==
    LET i == CHOOSE k \in 1..Len(FieldOrder) : FieldOrder[k] = f
    IN  IF i = Len(FieldOrder) THEN "done" ELSE FieldOrder[i + 1]

\* CronExpression.__init__: self._<f> = expand_expression(self.raw_<f>, ...);
\* after the last field the constructor returns the object to the caller
ExpandField(f) ==
    /\ pc = f
    /\ LET r == expand_expression(self.raw[f], DomainOf(f))
       IN  IF r.ok
           THEN /\ self' = [self EXCEPT !.expanded[f] = r.val]
                /\ pc' = PcAfter(f)
                /\ result' = IF PcAfter(f) = "done" THEN self' ELSE result
                /\ err' = err
           ELSE /\ self' = self
                /\ pc' = "error"
                /\ result' = result
                /\ err' = r.err
    /\ UNCHANGED <<expression, raw, arg, notation, options, out>>

ExpandMinute == ExpandField("minute")

ExpandHour == ExpandField("hour")

ExpandDayOfMonth == ExpandField("day_of_month")

ExpandMonth == ExpandField("month")

ExpandDayOfWeek == ExpandField("day_of_week")

Next ==
    \/ RawInit
    \/ RawExpand
    \/ CronInit
    \/ ExpandMinute
    \/ ExpandHour
    \/ ExpandDayOfMonth
    \/ ExpandMonth
    \/ ExpandDayOfWeek

Spec == Init /\ [][Next]_vars

(***************************************************************************)
(* The grammar of the specification (section 4.1), stated on the text of   *)
(* a notation without the regular expressions of the source.               *)
(***************************************************************************)
Occurrences(s, c) == Cardinality({i \in 1..Len(s) : s[i] = c})

FirstAt(s, c) == CHOOSE i \in 1..Len(s) : s[i] = c /\ \A j \in 1..(i - 1) : s[j] # c

Before(s, c) == SubSeq(s, 1, FirstAt(s, c) - 1)

After(s, c) == SubSeq(s, FirstAt(s, c) + 1, Len(s))

\* a numeric token of one or two digits, and the number it denotes
IsShortNumber(s) == Len(s) \in {1, 2} /\ \A i \in 1..Len(s) : s[i] \in Digits

NumberOf(s) ==
    IF Len(s) = 1 THEN DigitVal(s[1]) ELSE 10 * DigitVal(s[1]) + DigitVal(s[2])

\* the entries of a comma-separated notation, in the order written
Entries(s) ==
    LET cuts   == {0} \cup {i \in 1..Len(s) : s[i] = ","} \cup {Len(s) + 1}
        cut(k) == CHOOSE p \in cuts : Cardinality({q \in cuts : q < p}) = k - 1
    IN  [k \in 1..(Cardinality(cuts) - 1) |-> SubSeq(s, cut(k) + 1, cut(k + 1) - 1)]

IsWildcardNotation(s) == s = <<"*">>

IsSingleNotation(s) == IsShortNumber(s)

IsRangeNotation(s) ==
    /\ Occurrences(s, "-") = 1
    /\ IsShortNumber(Before(s, "-"))
    /\ IsShortNumber(After(s, "-"))

IsListNotation(s) ==
    /\ Occurrences(s, ",") >= 1
    /\ \A k \in 1..Len(Entries(s)) : IsShortNumber(Entries(s)[k])

IsSteppedNotation(s) ==
    /\ Occurrences(s, "/") = 1
    /\ IsWildcardNotation(Before(s, "/")) \/ IsRangeNotation(Before(s, "/"))
    /\ IsShortNumber(After(s, "/"))

IsSomeNotation(s) ==
    \/ IsWildcardNotation(s)
    \/ IsSingleNotation(s)
    \/ IsRangeNotation(s)
    \/ IsListNotation(s)
    \/ IsSteppedNotation(s)

\* some numeric token of s has three digits or more
HasLongNumber(s) ==
    \E i \in 1..(Len(s) - 2) : \A j \in i..(i + 2) : s[j] \in Digits

RangeLow(s) == NumberOf(Before(s, "-"))

RangeHigh(s) == NumberOf(After(s, "-"))

\* the members of D between a and b, in D's order
Between(D, a, b) == SelectSeq(D, LAMBDA x : a <= x /\ x <= b)

\* the values of vs that are members of D, in the order of vs
KeptOf(vs, D) == SelectSeq(vs, LAMBDA x : \E i \in 1..Len(D) : D[i] = x)

ListedValues(s) == [k \in 1..Len(Entries(s)) |-> NumberOf(Entries(s)[k])]

\* the expansion of the base of a stepped notation whose base is valid
BaseOf(s, D) ==
    IF IsWildcardNotation(Before(s, "/")) THEN D
    ELSE Between(D, RangeLow(Before(s, "/")), RangeHigh(Before(s, "/")))

StepOf(s) == NumberOf(After(s, "/"))

Returned == pc = "returned"

(***************************************************************************)
(* C1: a bare 1-2 digit integer v expands to [v] when v is in the domain   *)
(* and otherwise fails with ValueNotInDomain, the error of the             *)
(* single-value rule (not with the list rule's NoValidValues).             *)
(***************************************************************************)
C1_SingleValue ==
    (Returned /\ IsSingleNotation(notation)) =>
        out = IF In(NumberOf(notation), options)
              THEN Return(<<NumberOf(notation)>>)
              ELSE Raise(ValueNotInDomain)

(***************************************************************************)
(* C4: a range "a-b" with a <= b expands to exactly the members of the     *)
(* domain within [a,b], in domain order (the empty sequence, not an error, *)
(* when there is none); with a > b it fails with InvalidRange.             *)
(***************************************************************************)
C4_Range ==
    (Returned /\ IsRangeNotation(notation)) =>
        out = IF RangeLow(notation) <= RangeHigh(notation)
              THEN Return(Between(options, RangeLow(notation), RangeHigh(notation)))
              ELSE Raise(InvalidRange)

\* a valid range that excludes every member of the domain has returned
C4_Witness ==
    /\ Returned
    /\ IsRangeNotation(notation)
    /\ RangeLow(notation) <= RangeHigh(notation)
    /\ \A i \in 1..Len(options) :
           options[i] < RangeLow(notation) \/ options[i] > RangeHigh(notation)
    /\ out = Return(<<>>)

(***************************************************************************)
(* C5: a list of two or more entries expands to its entries that are       *)
(* members of the domain, in the order written, the others dropped; when   *)
(* no entry is a member it fails with NoValidValues.                       *)
(***************************************************************************)
C5_List ==
    (Returned /\ IsListNotation(notation)) =>
        out = IF KeptOf(ListedValues(notation), options) # <<>>
              THEN Return(KeptOf(ListedValues(notation), options))
              ELSE Raise(NoValidValues)

\* a list written out of domain order, one entry of it dropped, has returned
C5_Witness ==
    /\ Returned
    /\ IsListNotation(notation)
    /\ out.ok
    /\ Len(out.val) >= 2
    /\ out.val[1] > out.val[2]
    /\ Len(out.val) < Len(Entries(notation))

(***************************************************************************)
(* C6: a stepped notation base/step with step >= 1 and base "*" or a valid *)
(* range expands to the elements x of C, the expansion of the base, with   *)
(* (x - C[0]) mod step = 0, in C's order; an empty C gives the empty       *)
(* sequence and no error.                                                  *)
(***************************************************************************)
C6_Stepped ==
    (/\ Returned
     /\ IsSteppedNotation(notation)
     /\ StepOf(notation) >= 1
     /\ \/ IsWildcardNotation(Before(notation, "/"))
        \/ RangeLow(Before(notation, "/")) <= RangeHigh(Before(notation, "/")))
    => LET C == BaseOf(notation, options)
       IN  out = Return(SelectSeq(C, LAMBDA x : (x - C[1]) % StepOf(notation) = 0))

\* a stepped notation whose base does not start on a multiple of the step
\* has returned a non-empty sequence
C6_Witness ==
    /\ Returned
    /\ IsSteppedNotation(notation)
    /\ StepOf(notation) >= 2
    /\ out.ok
    /\ Len(out.val) >= 2
    /\ out.val[1] % StepOf(notation) # 0

(***************************************************************************)
(* C7: a stepped notation whose step is 0 ("0" or "00") fails with         *)
(* InvalidInterval, also when its base is a range with start > end: the    *)
(* step is checked before the base is expanded.                            *)
(***************************************************************************)
C7_ZeroStep ==
    (Returned /\ IsSteppedNotation(notation) /\ StepOf(notation) = 0) =>
        out = Raise(InvalidInterval)

\* a step of 0 over a range with start > end has been rejected
C7_Witness ==
    /\ Returned
    /\ IsSteppedNotation(notation)
    /\ StepOf(notation) = 0
    /\ IsRangeNotation(Before(notation, "/"))
    /\ RangeLow(Before(notation, "/")) > RangeHigh(Before(notation, "/"))
    /\ out = Raise(InvalidInterval)

(***************************************************************************)
(* C10: a notation with a numeric token of three digits or more, and a     *)
(* notation of none of the five forms, fails with UnrecognizedFormat and   *)
(* with no other error.                                                    *)
(***************************************************************************)
C10_Unrecognized ==
    (Returned /\ (HasLongNumber(notation) \/ ~IsSomeNotation(notation))) =>
        out = Raise(UnrecognizedFormat)

\* a list whose only defect is an entry of three digits has been rejected
C10_Witness ==
    /\ Returned
    /\ HasLongNumber(notation)
    /\ Occurrences(notation, ",") = 1
    /\ \A k \in 1..2 :
           /\ Entries(notation)[k] # <<>>
           /\ \A i \in 1..Len(Entries(notation)[k]) : Entries(notation)[k][i] \in Digits
    /\ out = Raise(UnrecognizedFormat)

(***************************************************************************)
(* The schedule of the specification (sections 3 and 4.2), stated on the   *)
(* text of the expression.                                                 *)
(***************************************************************************)
\* where the whitespace-separated tokens of s begin
TokenStarts(s) ==
    {i \in 1..Len(s) : s[i] \notin WhiteSpace /\ (i = 1 \/ s[i - 1] \in WhiteSpace)}

\* the token of s that begins at i
TokenFrom(s, i) ==
    SubSeq(s, i, CHOOSE j \in i..Len(s) :
                     /\ \A k \in i..j : s[k] \notin WhiteSpace
                     /\ j = Len(s) \/ s[j + 1] \in WhiteSpace)

Tokens(s) ==
    LET starts == TokenStarts(s)
        nth(k) == CHOOSE p \in starts : Cardinality({q \in starts : q < p}) = k - 1
    IN  [k \in 1..Cardinality(starts) |-> TokenFrom(s, nth(k))]

\* tokens k, k+1, ... of toks with one space between them
RECURSIVE SingleSpaced(_, _)
SingleSpaced(toks, k) ==
    IF k > Len(toks) THEN <<>>
    ELSE IF k = Len(toks) THEN toks[k]
    ELSE toks[k] \o <<" ">> \o SingleSpaced(toks, k + 1)

\* the fields, left to right, and the fixed domain of each
FieldAt(k) ==
    CASE k = 1 -> "minute" [] k = 2 -> "hour" [] k = 3 -> "day_of_month"
      [] k = 4 -> "month" [] k = 5 -> "day_of_week"

FieldValues(f) ==
    CASE f = "minute"       -> 0..59
      [] f = "hour"         -> 0..23
      [] f = "day_of_month" -> 1..31
      [] f = "month"        -> 1..12
      [] f = "day_of_week"  -> 1..7

\* v is a subsequence of the (ascending) domain of f: domain order, no repeats
IsDomainSubsequence(v, f) ==
    /\ \A i \in 1..Len(v) : v[i] \in FieldValues(f)
    /\ \A i, j \in 1..Len(v) : i < j => v[i] < v[j]

Constructed == pc = "done"

(***************************************************************************)
(* C2 as claimed: of a CronExpression constructed successfully, every      *)
(* expanded field is a subsequence of its domain, in domain order and      *)
(* without duplicates, whatever the form of its notation.                  *)
(***************************************************************************)
C2_DomainOrder ==
    Constructed =>
        \A f \in FieldNames : IsDomainSubsequence(result.expanded[f], f)

(***************************************************************************)
(* C2 as amended: of a CronExpression constructed successfully, every      *)
(* expanded field whose notation is a wildcard, a range, a stepped         *)
(* notation or a single value is a subsequence of its domain, in domain    *)
(* order and without duplicates; a field whose notation is a list of two   *)
(* or more entries holds its entries that are members of the domain in the *)
(* order written (it may leave domain order and repeat a value).           *)
(***************************************************************************)
C2_Amended ==
    Constructed =>
        LET t == Tokens(expression)
        IN  \A k \in 1..5 :
            LET n == t[k]
                v == result.expanded[FieldAt(k)]
            IN  IF IsListNotation(n)
                THEN v = SelectSeq(ListedValues(n),
                                   LAMBDA x : x \in FieldValues(FieldAt(k)))
                ELSE IsDomainSubsequence(v, FieldAt(k))

\* constructed, with a list field out of domain order beside a stepped field
C2_Witness ==
    /\ Constructed
    /\ \E k \in 1..5 :
           /\ IsListNotation(Tokens(expression)[k])
           /\ ~IsDomainSubsequence(result.expanded[FieldAt(k)], FieldAt(k))
    /\ \E k \in 1..5 :
           /\ IsSteppedNotation(Tokens(expression)[k])
           /\ Len(result.expanded[FieldAt(k)]) >= 2

(***************************************************************************)
(* C3: of a CronExpression constructed successfully, every integer of      *)
(* every expanded field is a member of the field's domain: minute 0..59,   *)
(* hour 0..23, day of month 1..31, month 1..12, day of week 1..7.          *)
(***************************************************************************)
C3_InDomain ==
    Constructed =>
        \A f \in FieldNames :
            \A i \in 1..Len(result.expanded[f]) :
                result.expanded[f][i] \in FieldValues(f)

\* constructed with no wildcard, every field holding a value
C3_Witness ==
    /\ Constructed
    /\ \A f \in FieldNames :
           /\ ~IsWildcardNotation(result.raw[f])
           /\ result.expanded[f] # <<>>

\* the expander's verdict on each of the five fields of the tokens t
FieldErrors(t) ==
    [k \in 1..5 |-> expand_expression(t[k], DomainOf(FieldAt(k))).err]

ExpectedError(e) ==
    LET t == Tokens(e)
    IN  IF Len(t) < 6 THEN MalformedExpression
        ELSE LET errs == FieldErrors(t)
             IN  IF \A k \in 1..5 : errs[k] = "none" THEN "none"
                 ELSE errs[CHOOSE k \in 1..5 :
                               /\ errs[k] # "none"
                               /\ \A j \in 1..(k - 1) : errs[j] = "none"]

(***************************************************************************)
(* C8: the error of a construction is MalformedExpression when the         *)
(* expression has fewer than 6 tokens, whatever its fields; otherwise it   *)
(* is the expander's error for the leftmost invalid field (minute, hour,   *)
(* day of month, month, day of week), and the caller receives no expanded  *)
(* value of any field.                                                     *)
(***************************************************************************)
C8_ErrorOrder ==
    /\ pc \in {"done", "error"} => err = ExpectedError(expression)
    /\ pc = "error" => (err # "none" /\ result = None)
    /\ pc = "done" => err = "none"

\* two fields fail differently, the minute was expanded, the left error is raised
C8_Witness ==
    /\ pc = "error"
    /\ result = None
    /\ Len(Tokens(expression)) >= 6
    /\ LET errs == FieldErrors(Tokens(expression))
       IN  /\ errs[1] = "none"
           /\ \E j, k \in 2..5 :
                  /\ j < k
                  /\ errs[j] # "none"
                  /\ errs[k] # "none"
                  /\ errs[j] # errs[k]
                  /\ err = errs[j]

(***************************************************************************)
(* C9: of an expression of 6 tokens or more, the five raw fields are       *)
(* tokens 1..5 unchanged and the command is tokens 6..n joined by single   *)
(* spaces (one token is a valid command); the CronExpression that          *)
(* RawCronExpression.expand builds has the same raw fields and command:    *)
(* rebuilding the text and splitting it again changes nothing.             *)
(***************************************************************************)
C9_Command ==
    LET t == Tokens(expression)
    IN  /\ (pc # "start" /\ Len(t) >= 6) =>
               /\ pc # "error" \/ err # MalformedExpression
               /\ \A k \in 1..5 : raw.raw[FieldAt(k)] = t[k]
               /\ raw.command = SingleSpaced(t, 6)
        /\ pc \in FieldNames \cup {"done"} =>
               /\ self.raw = raw.raw
               /\ self.command = raw.command
        /\ Constructed =>
               /\ result.raw = raw.raw
               /\ result.command = raw.command

\* constructed from a text with irregular spacing and a command of two words
C9_Witness ==
    /\ Constructed
    /\ arg # expression
    /\ Len(Tokens(expression)) >= 7
    /\ result.command = SingleSpaced(Tokens(expression), 6)

====
